---- MODULE Spec2Model ----
(***************************************************************************)
(* Model of package hedged (hedged.go): one invocation of                  *)
(*   RunN(ctx, wait, n, r)                                                 *)
(* together with the goroutines it starts (one per attempt, plus the       *)
(* cleanup goroutine), the caller's context, the derived context and the   *)
(* time.After timer of the race.                                           *)
(***************************************************************************)
EXTENDS Integers, Sequences, FiniteSets, TLC

\* Largest value of the parameter n (number of hedges) that is explored.
MaxHedges == 2

\* The interface values that travel over the channel.
Nil == <<"nil", 0>>
\* ctx.Err() of a cancelled context (context.Canceled).
Canceled == <<"err", 0>>
Val(i) == <<"val", i>>
Err(i) == <<"err", i>>

VARIABLES
    n,          \* parameter n of RunN
    pc,         \* position of RunN: "loop", "select", "Done", "returned"
    sent,       \* local variable sent
    wg,         \* counter of the sync.WaitGroup
    att,        \* per attempt goroutine: "none", "running", "sending", "sent", "done"
    result,     \* per attempt: the pair (res, err) returned by r.Req
    ch,         \* buffer of the channel ch (capacity n)
    closed,     \* ch has been closed
    v,          \* local variable v, the value RunN returns
    ctxDone,    \* the caller's ctx is cancelled
    newCtxDone, \* the derived newCtx is cancelled
    timer,      \* the time.After timer of the current select: "off", "armed", "fired"
    cleanup,    \* cleanup goroutine: "none", "waiting", "closing", "finished"
    exit,       \* history: which select case resolved the race
    delivered,  \* history: attempts in the order their sends on ch completed
    atFire,     \* history: Len(delivered) when ctx was cancelled, -1 before
    entry,      \* history: ctx was already cancelled when RunN was entered
    ctxValue,   \* what ctx.Value(key) yields for a key of the caller
    seen        \* per attempt: what Value(key) yields on the context it was handed

vars == <<n, pc, sent, wg, att, result, ch, closed, v, ctxDone, newCtxDone,
          timer, cleanup, exit, delivered, atFire, entry, ctxValue, seen>>

Attempts == 1..(n + 1)

\* Variant: the channel is made one slot smaller.
Cap_OneLess == n - 1

\* Capacity of ch: make(chan interface{}, n) at line 102.
Cap == n

\* What ctx.Value(key) yields for the key the caller attached with
\* context.WithValue ("absent" stands for a context without the key).
CtxValues == {"howdy"}

\* Variant: the attempts are handed a context not derived from ctx.
NewCtxValue_Detached == "absent"

\* What newCtx.Value(key) yields: context.WithCancel(ctx) at line 101 keeps
\* ctx as parent, and a lookup on newCtx is answered by ctx.
NewCtxValue == ctxValue

NoResult == [res |-> Nil, err |-> Nil]

\* Variant: the goroutine sends res whatever err is.
Item_ResOnly(r) == r.res

\* What the attempt goroutine sends: err when it is not nil, else res.
Item(r) == IF r.err # Nil THEN r.err ELSE r.res

\* The results r.Req(newCtx) may return for attempt i: a value, an error of
\* its own, or - once newCtx is cancelled - newCtx.Err().
ReqResults(i) ==
    {[res |-> Val(i), err |-> Nil], [res |-> Nil, err |-> Err(i)]}
        \cup (IF newCtxDone THEN {[res |-> Nil, err |-> Canceled]} ELSE {})

TypeOK ==
    /\ n \in 0..MaxHedges
    /\ pc \in {"loop", "select", "Done", "returned"}
    /\ sent \in 0..(n + 1)
    /\ wg \in 0..(n + 1)
    /\ att \in [Attempts -> {"none", "running", "sending", "sent", "done"}]
    /\ Len(ch) <= Cap
    /\ closed \in BOOLEAN
    /\ ctxDone \in BOOLEAN
    /\ newCtxDone \in BOOLEAN
    /\ timer \in {"off", "armed", "fired"}
    /\ cleanup \in {"none", "waiting", "closing", "finished"}
    /\ exit \in {"none", "outcome", "cancelled"}

\* State after lines 98-103: newCtx derived from ctx (already cancelled when
\* ctx is), ch made with capacity n, sent = 0.
Init ==
    /\ n \in 0..MaxHedges
    /\ pc = "loop"
    /\ sent = 0
    /\ wg = 0
    /\ att = [i \in 1..(n + 1) |-> "none"]
    /\ result = [i \in 1..(n + 1) |-> NoResult]
    /\ ch = <<>>
    /\ closed = FALSE
    /\ v = Nil
    /\ ctxDone \in BOOLEAN
    /\ newCtxDone = ctxDone
    /\ timer = "off"
    /\ cleanup = "none"
    /\ exit = "none"
    /\ delivered = <<>>
    /\ atFire = IF ctxDone THEN 0 ELSE -1
    /\ entry = ctxDone
    /\ ctxValue \in CtxValues
    /\ seen = [i \in 1..(n + 1) |-> "unset"]

----------------------------------------------------------------------------
(* RunN *)

\* Variant: the bound of line 106 taken one too large.
MayLaunch_OffByOne == sent <= n + 1

\* Variant: an attempt is launched in every iteration.
MayLaunch_Always == TRUE

\* The launch condition of line 106.
MayLaunch == sent <= n

\* Variant: wg.Add(1) is not done by the launch loop.
WgAdd_Missing(w) == w

\* wg.Add(1) at line 111, before the go statement.
WgAdd(w) == w + 1

\* Lines 105-124 and the evaluation of time.After(wait) on entering select.
Launch ==
    /\ pc = "loop"
    /\ IF MayLaunch
         THEN /\ sent' = sent + 1
              /\ wg' = WgAdd(wg)
              /\ att' = [att EXCEPT ![sent + 1] = "running"]
              /\ seen' = [seen EXCEPT ![sent + 1] = NewCtxValue]
         ELSE UNCHANGED <<sent, wg, att, seen>>
    /\ timer' = "armed"
    /\ pc' = "select"
    /\ UNCHANGED <<n, result, ch, closed, v, ctxDone, newCtxDone, cleanup,
                   exit, delivered, atFire, entry, ctxValue>>

\* The timer of time.After(wait) fires.
Elapse ==
    /\ timer = "armed"
    /\ timer' = "fired"
    /\ UNCHANGED <<n, pc, sent, wg, att, result, ch, closed, v, ctxDone,
                   newCtxDone, cleanup, exit, delivered, atFire, entry, ctxValue, seen>>

\* Variant: the case ends with break, which leaves the select but not the loop.
AfterResolve_BreakSelect == "loop"

\* Where the cases of lines 131-135 continue: goto Done.
AfterResolve == "Done"

\* Variant: the receive takes the newest element of the buffer.
RecvIndex_Newest(q) == Len(q)

\* Variant: the receive passes over errors while a value is buffered.
RecvIndex_PreferValue(q) ==
    IF \E k \in 1..Len(q) : q[k][1] = "val"
      THEN CHOOSE k \in 1..Len(q) :
               /\ q[k][1] = "val"
               /\ \A j \in 1..(k - 1) : q[j][1] # "val"
      ELSE 1

\* Which element a receive takes from a non-empty buffer: a channel is FIFO.
RecvIndex(q) == 1

RemoveAt(q, k) == [j \in 1..(Len(q) - 1) |-> IF j < k THEN q[j] ELSE q[j + 1]]

\* case v = <-ch, from the buffer.
SelectRecvBuf ==
    /\ pc = "select"
    /\ Len(ch) > 0
    /\ v' = ch[RecvIndex(ch)]
    /\ ch' = RemoveAt(ch, RecvIndex(ch))
    /\ pc' = AfterResolve
    /\ exit' = "outcome"
    /\ UNCHANGED <<n, sent, wg, att, result, closed, ctxDone, newCtxDone,
                   timer, cleanup, delivered, atFire, entry, ctxValue, seen>>

\* Variant: every goroutine sends the outcome of the first attempt.
SendItem_First(i) == Item(result[1])

\* The value attempt i sends at lines 114-118.
SendItem(i) == Item(result[i])

\* case v = <-ch, directly from a sender blocked on the unbuffered channel.
SelectRecvSync(i) ==
    /\ pc = "select"
    /\ Cap <= 0
    /\ att[i] = "sending"
    /\ ~closed
    /\ v' = SendItem(i)
    /\ att' = [att EXCEPT ![i] = "sent"]
    /\ delivered' = Append(delivered, i)
    /\ pc' = AfterResolve
    /\ exit' = "outcome"
    /\ UNCHANGED <<n, sent, wg, result, ch, closed, ctxDone, newCtxDone,
                   timer, cleanup, atFire, entry, ctxValue, seen>>

\* Variant: the case can always proceed.
CtxReady_Always == TRUE

\* Variant: only a cancellation that happens after entry is noticed.
CtxReady_EdgeOnly == ctxDone /\ ~entry

\* When the select's case <-ctx.Done() can proceed.
CtxReady == ctxDone

\* case <-ctx.Done(): v = ctx.Err().
SelectCtxDone ==
    /\ pc = "select"
    /\ CtxReady
    /\ v' = Canceled
    /\ pc' = AfterResolve
    /\ exit' = "cancelled"
    /\ UNCHANGED <<n, sent, wg, att, result, ch, closed, ctxDone, newCtxDone,
                   timer, cleanup, delivered, atFire, entry, ctxValue, seen>>

\* Variant: the case can proceed before the timer fired.
TimerReady_Always == TRUE

\* When the select's case <-time.After(wait) can proceed.
TimerReady == timer = "fired"

\* Variant: the wait interval is a deadline, the case leaves the loop.
AfterTick_Deadline == "Done"

\* Where the case of lines 136-137 continues: the top of the loop.
AfterTick == "loop"

\* Variant: the case cancels newCtx before continuing.
OnTick_Cancel(b) == TRUE

\* What the case of lines 136-137 does to newCtx: nothing.
OnTick(b) == b

\* case <-time.After(wait): continue.
SelectTick ==
    /\ pc = "select"
    /\ TimerReady
    /\ timer' = "off"
    /\ pc' = AfterTick
    /\ newCtxDone' = OnTick(newCtxDone)
    /\ UNCHANGED <<n, sent, wg, att, result, ch, closed, v, ctxDone,
                   cleanup, exit, delivered, atFire, entry, ctxValue, seen>>

\* Variant: done() is not called.
Revoke_Missing(b) == b

\* What done() at line 144 does to the derived context.
Revoke(b) == TRUE

\* Variant: wg.Wait() is called before returning.
ReturnReady_WaitInline == wg = 0

\* What the label Done requires of the WaitGroup before RunN returns: nothing,
\* wg.Wait() is called in the goroutine of line 145.
ReturnReady == TRUE

\* Label Done, lines 141-147: done(), start the cleanup goroutine, return v.
Done ==
    /\ pc = "Done"
    /\ ReturnReady
    /\ newCtxDone' = Revoke(newCtxDone)
    /\ cleanup' = "waiting"
    /\ pc' = "returned"
    /\ UNCHANGED <<n, sent, wg, att, result, ch, closed, v, ctxDone, timer,
                   exit, delivered, atFire, entry, ctxValue, seen>>

----------------------------------------------------------------------------
(* The attempt goroutines, lines 112-123 *)

\* res, err := r.Req(newCtx) returns.
Req(i) ==
    /\ att[i] = "running"
    /\ \E r \in ReqResults(i) : result' = [result EXCEPT ![i] = r]
    /\ att' = [att EXCEPT ![i] = "sending"]
    /\ UNCHANGED <<n, pc, sent, wg, ch, closed, v, ctxDone, newCtxDone, timer,
                   cleanup, exit, delivered, atFire, entry, ctxValue, seen>>

\* ch <- err / ch <- res into the buffer.
Send(i) ==
    /\ att[i] = "sending"
    /\ ~closed
    /\ Len(ch) < Cap
    /\ ch' = Append(ch, SendItem(i))
    /\ att' = [att EXCEPT ![i] = "sent"]
    /\ delivered' = Append(delivered, i)
    /\ UNCHANGED <<n, pc, sent, wg, result, closed, v, ctxDone, newCtxDone,
                   timer, cleanup, exit, atFire, entry, ctxValue, seen>>

\* wg.Done()
WgDone(i) ==
    /\ att[i] = "sent"
    /\ att' = [att EXCEPT ![i] = "done"]
    /\ wg' = wg - 1
    /\ UNCHANGED <<n, pc, sent, result, ch, closed, v, ctxDone, newCtxDone,
                   timer, cleanup, exit, delivered, atFire, entry, ctxValue, seen>>

----------------------------------------------------------------------------
(* The cleanup goroutine, line 145 *)

\* Variant: the cleanup goroutine does not wait.
WaitReady_NoWait == TRUE

\* When wg.Wait() can return.
WaitReady == wg = 0

\* wg.Wait() returns.
CleanupWait ==
    /\ cleanup = "waiting"
    /\ WaitReady
    /\ cleanup' = "closing"
    /\ UNCHANGED <<n, pc, sent, wg, att, result, ch, closed, v, ctxDone,
                   newCtxDone, timer, exit, delivered, atFire, entry, ctxValue, seen>>

\* close(ch)
CleanupClose ==
    /\ cleanup = "closing"
    /\ closed' = TRUE
    /\ cleanup' = "finished"
    /\ UNCHANGED <<n, pc, sent, wg, att, result, ch, v, ctxDone, newCtxDone,
                   timer, exit, delivered, atFire, entry, ctxValue, seen>>

----------------------------------------------------------------------------
(* The caller's context *)

\* The caller cancels ctx.
CallerCancel ==
    /\ ~ctxDone
    /\ ctxDone' = TRUE
    /\ atFire' = Len(delivered)
    /\ UNCHANGED <<n, pc, sent, wg, att, result, ch, closed, v, newCtxDone,
                   timer, cleanup, exit, delivered, entry, ctxValue, seen>>

\* The cancellation of ctx reaches the context derived at line 101.
Propagate ==
    /\ ctxDone
    /\ ~newCtxDone
    /\ newCtxDone' = TRUE
    /\ UNCHANGED <<n, pc, sent, wg, att, result, ch, closed, v, ctxDone,
                   timer, cleanup, exit, delivered, atFire, entry, ctxValue, seen>>

----------------------------------------------------------------------------
Next ==
    \/ Launch
    \/ Elapse
    \/ SelectRecvBuf
    \/ \E i \in Attempts : SelectRecvSync(i)
    \/ SelectCtxDone
    \/ SelectTick
    \/ Done
    \/ \E i \in Attempts : Req(i)
    \/ \E i \in Attempts : Send(i)
    \/ \E i \in Attempts : WgDone(i)
    \/ CleanupWait
    \/ CleanupClose
    \/ CallerCancel
    \/ Propagate

Spec == Init /\ [][Next]_vars

\* Req(i) taken by a task that has observed the cancellation of newCtx.
ReqCancelled(i) == newCtxDone /\ Req(i)

\* Scheduling: a goroutine that can run its next statement eventually does,
\* and a task returns once it observes cancellation.  Nothing makes a task
\* return before that, the caller cancel, or the timer fire.
FairSpec ==
    /\ Spec
    /\ WF_vars(Launch)
    /\ WF_vars(Done)
    /\ WF_vars(CleanupWait)
    /\ WF_vars(CleanupClose)
    /\ \A i \in 1..(MaxHedges + 1) :
          /\ WF_vars(i \in Attempts /\ ReqCancelled(i))
          /\ WF_vars(i \in Attempts /\ Send(i))
          /\ WF_vars(i \in Attempts /\ WgDone(i))

\* One step of the race: the select of lines 130-138 takes one of its cases.
SelectStep ==
    \/ SelectRecvBuf
    \/ \E i \in Attempts : SelectRecvSync(i)
    \/ SelectCtxDone
    \/ SelectTick

\* FairSpec with weak fairness of the race step: a select with a case that
\* can proceed eventually takes some case.
RaceSpec == FairSpec /\ WF_vars(SelectStep)

----------------------------------------------------------------------------
(* Properties *)

\* C1: the number of attempts launched never exceeds n + 1, and the launch
\* counter never decreases.
C1_BoundedAttempts ==
    /\ [](sent <= n + 1)
    /\ [][sent' >= sent]_vars

\* All n + 1 attempts are launched and a further tick has brought RunN back
\* to the launch condition.
C1_Witness == n >= 1 /\ sent = n + 1 /\ pc = "loop"

\* C2: when the race is resolved by an outcome, the value of v is the outcome
\* of the attempt whose send completed first, and stays so.
C2_FirstArrivedWins ==
    exit = "outcome" =>
        /\ Len(delivered) >= 1
        /\ v = Item(result[delivered[1]])

\* RunN returned the first of at least two delivered outcomes, and the second
\* differs from it.
C2_Witness ==
    /\ pc = "returned"
    /\ exit = "outcome"
    /\ Len(delivered) >= 2
    /\ v # Item(result[delivered[2]])

\* C3 (as claimed): after RunN returns, on either exit path, every launched
\* attempt eventually finishes and ch is eventually closed.
C3_NoLeak ==
    (pc = "returned") ~>
        (closed /\ \A i \in Attempts : i <= sent => att[i] = "done")

\* C4: once the race is resolved, the return of RunN is not held back by any
\* attempt: the step of the label Done is enabled whatever the attempts do.
C4_ReturnDoesNotWait == pc = "Done" => ENABLED Done

\* RunN has returned while an attempt is still inside r.Req and ch is open.
C4_Witness ==
    /\ pc = "returned"
    /\ \E i \in Attempts : att[i] = "running"
    /\ cleanup = "waiting"
    /\ ~closed

\* C5: whenever RunN has returned, newCtx is cancelled; and newCtx, once
\* cancelled, stays cancelled.
C5_ScopeRevoked ==
    /\ [](pc = "returned" => newCtxDone)
    /\ [][newCtxDone => newCtxDone']_vars

\* RunN returned an outcome, the caller never cancelled, and an attempt that
\* is still running sees newCtx cancelled.
C5_Witness ==
    /\ pc = "returned"
    /\ exit = "outcome"
    /\ ~ctxDone
    /\ newCtxDone
    /\ \E i \in Attempts : att[i] = "running"

NothingToReceive ==
    /\ Len(ch) = 0
    /\ ~(n = 0 /\ \E i \in Attempts : att[i] = "sending")

C9_HedgeWins ==
    (exit = "outcome" /\ att[1] = "running") =>
        /\ Len(delivered) >= 1
        /\ delivered[1] >= 2
        /\ v = Item(result[delivered[1]])
        /\ v \notin {Val(1), Err(1)}

\* RunN returned the value of the first hedge with the primary still running.
C9_Witness ==
    /\ n >= 1
    /\ pc = "returned"
    /\ exit = "outcome"
    /\ att[1] = "running"
    /\ v = Val(2)

C11_AtMostN == sent <= n

\* C12: once the race is resolved, v is the err (when not nil) or else the
\* res returned by an attempt of this call whose send completed, or it is
\* ctx.Err() with ctx cancelled; and from then on v never changes.
C12_ReturnedValueOrigin ==
    /\ [](pc \in {"Done", "returned"} =>
            \/ /\ exit = "outcome"
               /\ \E i \in 1..sent :
                     /\ att[i] \in {"sent", "done"}
                     /\ \/ result[i].err # Nil /\ v = result[i].err
                        \/ result[i].err = Nil /\ v = result[i].res
            \/ /\ exit = "cancelled"
               /\ ctxDone
               /\ v = Canceled)
    /\ [][(pc \in {"Done", "returned"}) => (v' = v)]_vars

\* RunN returned the error of the first attempt to deliver; the outcome of a
\* losing attempt sits in the buffer and v is unaffected.
C12_Witness ==
    /\ pc = "returned"
    /\ exit = "outcome"
    /\ Len(ch) >= 1
    /\ v = Err(delivered[1])
    /\ ch[1] # v

AllDone == \A i \in 1..sent : att[i] = "done"

\* C14: ch is closed only by the cleanup goroutine, after RunN returned and
\* after every launched attempt completed its send and called wg.Done(); no
\* attempt is sending or still to send when ch is closed or about to be
\* closed, and close(ch) is not reached with ch already closed.
C14_CloseAfterAllSends ==
    /\ closed => (cleanup = "finished" /\ pc = "returned" /\ AllDone)
    /\ cleanup = "closing" => (~closed /\ pc = "returned" /\ AllDone)

\* ch is closed after a primary and a hedge both sent and signalled.
C14_Witness ==
    /\ closed
    /\ sent >= 2
    /\ Len(delivered) >= 2

\* C15: the WaitGroup counter equals the number of attempts launched minus
\* the number that called wg.Done(), is never negative, and wg.Wait() has
\* not returned while a launched attempt has not called wg.Done().
C15_BarrierCount ==
    /\ wg = sent - Cardinality({i \in Attempts : att[i] = "done"})
    /\ wg >= 0
    /\ \A i \in Attempts : att[i] # "none" <=> i <= sent
    /\ cleanup \in {"closing", "finished"} => wg = 0 /\ AllDone

\* The cleanup goroutine is blocked in wg.Wait(): one attempt has signalled,
\* another has not.
C15_Witness ==
    /\ cleanup = "waiting"
    /\ wg >= 1
    /\ \E i \in Attempts : att[i] = "done"
    /\ \E i \in Attempts : att[i] = "running"

C18_NoLaunchAfterResolve == [][(exit # "none") => (sent' = sent)]_vars

\* RunN returned with fewer than n + 1 attempts launched and the timer of its
\* last select has fired since.
C18_Witness ==
    /\ pc = "returned"
    /\ sent <= n
    /\ timer = "fired"

\* C19: while the race is unresolved and ctx is not cancelled, newCtx is not
\* cancelled; and taking the tick leaves newCtx as it was.
C19_NoPrematureCancel ==
    /\ []((exit = "none" /\ ~ctxDone) => ~newCtxDone)
    /\ [][(pc = "select" /\ pc' = "loop") => (newCtxDone' = newCtxDone)]_vars

\* After a tick and the launch of a hedge both attempts run uncancelled.
C19_Witness ==
    /\ sent >= 2
    /\ pc = "select"
    /\ ~ctxDone
    /\ ~newCtxDone
    /\ att[1] = "running"
    /\ att[2] = "running"

\* C17: when the race is resolved by an outcome, an attempt that is at its
\* send never finds the buffer full; and (tasks returning once they observe
\* cancellation) every launched attempt then calls wg.Done() and ch is closed.
C17_OutcomeExitDrains ==
    /\ [](exit = "outcome" =>
             \A i \in Attempts : att[i] = "sending" => ENABLED Send(i))
    /\ (exit = "outcome") ~> (closed /\ AllDone)

\* Resolved by an outcome with all n + 1 attempts launched: the n losers have
\* filled the buffer and ch is closed.
C17_Witness ==
    /\ n >= 1
    /\ exit = "outcome"
    /\ sent = n + 1
    /\ Len(ch) = n
    /\ closed

\* An outcome has been delivered to ch or ctx is cancelled.
Resolvable == delivered # <<>> \/ ctxDone

====
